---- MODULE Spec2Model ----
(***************************************************************************)
(* Model of the invoice extraction pipeline of app/langgraph_workflow.py:  *)
(* the response parser (extract_json_from_response), the key normaliser    *)
(* (normalize_json_keys), the five stage functions and the runner loop     *)
(* (InvoiceExtractionWorkflow.run).                                        *)
(*                                                                         *)
(* Representation.                                                         *)
(*  - A Python str whose characters matter (a mapping key, an amount) is a *)
(*    sequence of one-character strings.                                   *)
(*  - A Python dict is the sequence of its items in insertion order.       *)
(*  - A JSON / Python value is a record tagged by k: "null", "bool",       *)
(*    "num", "bigint", "str", "arr", "obj".  Numbers are fixed point, in   *)
(*    units of 1/Scale, so that 0.85 is 2550 and 150.0 is 450000.          *)
(*    "bigint" is an int beyond the range of a float (float() of it raises *)
(*    OverflowError).                                                      *)
(*  - A model response is a sequence of lexical tokens: json.loads and the *)
(*    two regular expressions of the parser are modelled on tokens.        *)
(***************************************************************************)
EXTENDS Integers, Sequences, FiniteSets, TLC

VARIABLES
    \* InvoiceState (langgraph_workflow.py:73-81)
    raw_text, extracted_data, confidence_scores, processing_time, status,
    error_message,
    \* InvoiceExtractionWorkflow.run: position of the for loop
    pc, idx,
    \* environment: the "Running node" log, the groq_client.invoke calls
    ran, calls,
    \* the snapshot extract_invoice_data returns
    result,
    \* json.dumps(state.extracted_data) as the validation prompt carries it
    \* (langgraph_workflow.py:329)
    extracted_json,
    \* extract_json_from_response applied to one text: the text as first
    \* given, the form it is given in now, the text in that form, the result
    porig, pform, ptext, presult,
    \* normalize_json_keys applied to one mapping: the mapping, the result
    ndata, nresult,
    \* two calls of extract_invoice_data at once: each call's InvoiceState
    \* object and loop position, and the dicts the objects refer to
    runs, dicts,
    \* the service around the pipeline (main.py): the invoices row of one
    \* upload, the process_invoice_background tasks scheduled for it, the
    \* reprocess request being handled, and the task whose commit came last
    invoice, tasks, request, lastcommit

vars == <<raw_text, extracted_data, confidence_scores, processing_time, status,
          error_message, pc, idx, ran, calls, result, extracted_json,
          porig, pform, ptext, presult, ndata, nresult, runs, dicts,
          invoice, tasks, request, lastcommit>>

parserVars == <<porig, pform, ptext, presult>>

normalizerVars == <<ndata, nresult>>

pairVars == <<runs, dicts>>

taskVars == <<invoice, tasks, request, lastcommit>>

stateVars == <<raw_text, extracted_data, confidence_scores, processing_time,
               status, error_message, pc, idx, ran, calls, result,
               extracted_json>>

-----------------------------------------------------------------------------
(* Bounds *)

\* longest enumerated token text given to the parser
MaxTextLen == 3
\* largest elapsed time reported by stage 1
MaxElapsed == 1
\* most items of a mapping given to the normaliser
MaxKeys == 2

-----------------------------------------------------------------------------
(* Numbers and values *)

Scale == 3 * 1000

\* the float the conversion of an out-of-range digit string yields (inf)
Inf == Scale * Scale * 100

Null == [k |-> "null"]
Bool(b) == [k |-> "bool", v |-> b]
Num(n) == [k |-> "num", v |-> n]
BigInt == [k |-> "bigint"]
Str(s) == [k |-> "str", v |-> s]
Arr(a) == [k |-> "arr", v |-> a]
Obj(f) == [k |-> "obj", v |-> f]

\* A Python dict: the sequence of its items in insertion order, keys unique
EmptyDict == <<>>
Item(key, val) == [key |-> key, val |-> val]
Keys(d) == {d[i].key : i \in DOMAIN d}
\* key in d
Has(d, key) == key \in Keys(d)
\* d[key], for a key of d
Get(d, key) == d[CHOOSE i \in DOMAIN d : d[i].key = key].val
\* d.get(key, default)
GetOr(d, key, default) == IF Has(d, key) THEN Get(d, key) ELSE default

\* d[key] = val: an existing key keeps its position
DictSet(d, key, val) ==
    IF Has(d, key)
    THEN [i \in DOMAIN d |-> IF d[i].key = key THEN Item(key, val) ELSE d[i]]
    ELSE Append(d, Item(key, val))

\* d = e: the mapping replaced instead of updated
DictReplace(d, e) == e

\* d.update(e)
RECURSIVE DictUpdate(_, _)
DictUpdate(d, e) ==
    IF e = <<>> THEN d
    ELSE DictUpdate(DictSet(d, Head(e).key, Head(e).val), Tail(e))

\* isinstance(v, (int, float)): bool is a subclass of int
IsNumber(v) == v.k \in {"num", "bigint", "bool"}

\* bool(v)
Truthy(v) ==
    CASE v.k = "null" -> FALSE
      [] v.k = "bool" -> v.v
      [] v.k = "num" -> v.v # 0
      [] v.k = "bigint" -> TRUE
      [] v.k = "str" -> Len(v.v) > 0
      [] v.k = "arr" -> Len(v.v) > 0
      [] v.k = "obj" -> Len(v.v) > 0

-----------------------------------------------------------------------------
(* Tokens of a response text *)

T(t) == [t |-> t]
LBrace == T("{")
RBrace == T("}")
LBrack == T("[")
RBrack == T("]")
Colon == T(":")
Comma == T(",")
Fence == T("fence")
JsonTag == T("json")
Ws == T("ws")
Prose == T("prose")
\* an integer literal longer than the interpreter's digit limit, or nesting
\* deeper than its recursion limit: json.loads raises an error that is not
\* a JSONDecodeError
OverLimit == T("overlimit")
\* a literal: string, number, true/false/null
Lit(val) == [t |-> "lit", val |-> val]

-----------------------------------------------------------------------------
(* json.loads on a token text *)

NoWs(text) == SelectSeq(text, LAMBDA tok : tok.t # "ws")

DecodeError == [ok |-> FALSE, exc |-> "JSONDecodeError", val |-> Null, nxt |-> 0]
OtherError == [ok |-> FALSE, exc |-> "ValueError", val |-> Null, nxt |-> 0]
Parsed(val, nxt) == [ok |-> TRUE, exc |-> "", val |-> val, nxt |-> nxt]

RECURSIVE ParseValue(_, _), ParseElems(_, _, _), ParseMembers(_, _, _),
          AfterElem(_, _, _), AfterMember(_, _, _, _)

ParseValue(s, i) ==
    IF i > Len(s) THEN DecodeError
    ELSE CASE s[i].t = "lit" -> Parsed(s[i].val, i + 1)
           [] s[i].t = "overlimit" -> OtherError
           [] s[i].t = "[" ->
                IF i + 1 <= Len(s) /\ s[i + 1].t = "]"
                THEN Parsed(Arr(<<>>), i + 2)
                ELSE ParseElems(s, i + 1, <<>>)
           [] s[i].t = "{" ->
                IF i + 1 <= Len(s) /\ s[i + 1].t = "}"
                THEN Parsed(Obj(EmptyDict), i + 2)
                ELSE ParseMembers(s, i + 1, EmptyDict)
           [] OTHER -> DecodeError

\* after one element r of an array
AfterElem(s, acc, r) ==
    IF ~r.ok THEN r
    ELSE IF r.nxt > Len(s) THEN DecodeError
    ELSE IF s[r.nxt].t = "," THEN ParseElems(s, r.nxt + 1, Append(acc, r.val))
    ELSE IF s[r.nxt].t = "]" THEN Parsed(Arr(Append(acc, r.val)), r.nxt + 1)
    ELSE DecodeError

ParseElems(s, i, acc) == AfterElem(s, acc, ParseValue(s, i))

\* after the value r of the member named key of an object
AfterMember(s, acc, key, r) ==
    IF ~r.ok THEN r
    ELSE IF r.nxt > Len(s) THEN DecodeError
    ELSE IF s[r.nxt].t = ","
         THEN ParseMembers(s, r.nxt + 1, DictSet(acc, key, r.val))
    ELSE IF s[r.nxt].t = "}"
         THEN Parsed(Obj(DictSet(acc, key, r.val)), r.nxt + 1)
    ELSE DecodeError

ParseMembers(s, i, acc) ==
    IF i + 1 > Len(s) THEN DecodeError
    ELSE IF ~(s[i].t = "lit" /\ s[i].val.k = "str") THEN DecodeError
    ELSE IF s[i + 1].t # ":" THEN DecodeError
    ELSE AfterMember(s, acc, s[i].val.v, ParseValue(s, i + 2))

\* json.loads(text): one value, surrounded by optional whitespace
WholeText(s, r) ==
    IF ~r.ok THEN r
    ELSE IF r.nxt # Len(s) + 1 THEN DecodeError
    ELSE r

ParseTokens(s) == WholeText(s, ParseValue(s, 1))

JsonLoads(text) == ParseTokens(NoWs(text))

-----------------------------------------------------------------------------
(* The two regular expressions of extract_json_from_response *)

NoMatch == [found |-> FALSE, span |-> <<>>]

\* index of the first token at or after p that is not whitespace
RECURSIVE SkipWs(_, _)
SkipWs(text, p) ==
    IF p <= Len(text) /\ text[p].t = "ws" THEN SkipWs(text, p + 1) ELSE p

Least(S) == CHOOSE x \in S : \A y \in S : x <= y
Greatest(S) == CHOOSE x \in S : \A y \in S : x >= y

\* positions of a closing brace after q that whitespace and a fence follow
FenceEnds(text, q) ==
    {j \in (q + 1)..Len(text) :
        /\ text[j].t = "}"
        /\ SkipWs(text, j + 1) <= Len(text)
        /\ text[SkipWs(text, j + 1)].t = "fence"}

\* group 1 opens at q: the lazy body ends at the first such closing brace
FenceBody(text, q, ends) ==
    IF q <= Len(text) /\ text[q].t = "{" /\ ends # {}
    THEN <<q, Least(ends)>>
    ELSE <<0, 0>>

FenceFrom(text, q) == FenceBody(text, q, FenceEnds(text, q))

\* the fenced-block pattern (fence, optional json tag, whitespace, lazy
\* brace span, whitespace, fence) anchored at the fence at position i:
\* the positions <<q, j>> of group 1, or <<0, 0>>
FenceAt(text, i) ==
    FenceFrom(text,
              SkipWs(text, IF i + 1 <= Len(text) /\ text[i + 1].t = "json"
                           THEN i + 2 ELSE i + 1))

FenceSpan(text, m) == [found |-> TRUE, span |-> SubSeq(text, m[1], m[2])]

FenceFirst(text, starts) ==
    IF starts = {} THEN NoMatch
    ELSE FenceSpan(text, FenceAt(text, Least(starts)))

\* re.search of the fenced-block pattern (line 31), re.DOTALL: leftmost
\* start, lazy body
FenceSearch(text) ==
    FenceFirst(text, {i \in 1..Len(text) :
                        text[i].t = "fence" /\ FenceAt(text, i) # <<0, 0>>})

BraceSpan(text, first, closes) ==
    IF closes = {} THEN NoMatch
    ELSE [found |-> TRUE, span |-> SubSeq(text, first, Greatest(closes))]

BraceFrom(text, first) ==
    BraceSpan(text, first, {j \in 1..Len(text) : text[j].t = "}" /\ j > first})

BraceFirst(text, opens) ==
    IF opens = {} THEN NoMatch ELSE BraceFrom(text, Least(opens))

\* re.search(r'\{.*\}', text, re.DOTALL): first "{", greedy to the last "}"
BraceSearch(text) == BraceFirst(text, {i \in 1..Len(text) : text[i].t = "{"})

-----------------------------------------------------------------------------
(* extract_json_from_response *)

Returned(val) == [raised |-> "", val |-> val]
Raised(exc) == [raised |-> exc, val |-> Null]

\* lines 40-47: the brace span m parsed as r, and the final empty dict
BraceParsed(m, r) ==
    IF ~m.found THEN Returned(Obj(EmptyDict))
    ELSE IF r.ok THEN Returned(r.val)
    ELSE IF r.exc = "JSONDecodeError" THEN Returned(Obj(EmptyDict))
    ELSE Raised(r.exc)

BraceMatched(m) == BraceParsed(m, JsonLoads(m.span))

\* lines 38-47: the brace-span step
BraceStep(text) == BraceMatched(BraceSearch(text))

\* lines 32-36: the fenced block m parsed as r
FenceParsed(text, m, r) ==
    IF ~m.found THEN BraceStep(text)
    ELSE IF r.ok THEN Returned(r.val)
    ELSE IF r.exc = "JSONDecodeError" THEN BraceStep(text)
    ELSE Raised(r.exc)

FenceMatched(text, m) == FenceParsed(text, m, JsonLoads(m.span))

\* lines 30-36: the fenced-code-block step
FenceStep(text) == FenceMatched(text, FenceSearch(text))

\* lines 26-29: the direct parse r
DirectParsed(text, r) ==
    IF r.ok THEN Returned(r.val)
    ELSE IF r.exc = "JSONDecodeError" THEN FenceStep(text)
    ELSE Raised(r.exc)

extract_json_from_response(text) == DirectParsed(text, JsonLoads(text))

-----------------------------------------------------------------------------
(* Python str operations on character sequences *)

UpperCase == <<"A", "B", "C", "D", "E", "F", "G", "H", "I", "J", "K", "L", "M",
               "N", "O", "P", "Q", "R", "S", "T", "U", "V", "W", "X", "Y", "Z">>
LowerCase == <<"a", "b", "c", "d", "e", "f", "g", "h", "i", "j", "k", "l", "m",
               "n", "o", "p", "q", "r", "s", "t", "u", "v", "w", "x", "y", "z">>
Digits == <<"0", "1", "2", "3", "4", "5", "6", "7", "8", "9">>

\* str.lower(), one character
LowerChar(c) ==
    IF \E i \in DOMAIN UpperCase : UpperCase[i] = c
    THEN LowerCase[CHOOSE i \in DOMAIN UpperCase : UpperCase[i] = c]
    ELSE c

\* key.lower() alone
LowerOnly(key) == [i \in DOMAIN key |-> LowerChar(key[i])]

\* key.lower().replace(" ", "_")
LowerUnderscore(key) ==
    [i \in DOMAIN key |-> IF key[i] = " " THEN "_" ELSE LowerChar(key[i])]

\* s.replace(c, '') for every c in chars
Strip(s, chars) == SelectSeq(s, LAMBDA c : c \notin chars)

\* sub in s, on str
Contains(s, sub) ==
    \E i \in 0..(Len(s) - Len(sub)) : SubSeq(s, i + 1, i + Len(sub)) = sub

IsDigit(c) == \E i \in DOMAIN Digits : Digits[i] = c
DigitVal(c) == (CHOOSE i \in DOMAIN Digits : Digits[i] = c) - 1

RECURSIVE IntOfDigits(_)
IntOfDigits(ds) ==
    IF ds = <<>> THEN 0
    ELSE 10 * IntOfDigits(SubSeq(ds, 1, Len(ds) - 1)) + DigitVal(ds[Len(ds)])

\* the first three decimals of a fraction, in units of 1/Scale
FracOfDigits(ds) ==
    LET d(i) == IF i <= Len(ds) THEN DigitVal(ds[i]) ELSE 0
    IN  d(1) * (Scale \div 10) + d(2) * (Scale \div 100) + d(3) * (Scale \div 1000)

\* s.strip()
RECURSIVE Trim(_)
Trim(s) ==
    IF s # <<>> /\ s[1] = " " THEN Trim(Tail(s))
    ELSE IF s # <<>> /\ s[Len(s)] = " " THEN Trim(SubSeq(s, 1, Len(s) - 1))
    ELSE s

NotAFloat == [ok |-> FALSE, n |-> 0]

\* the digits before and after the point
Magnitude(whole, frac) ==
    IF /\ \A i \in DOMAIN whole : IsDigit(whole[i])
       /\ \A i \in DOMAIN frac : IsDigit(frac[i])
       /\ Len(whole) + Len(frac) > 0
    THEN [ok |-> TRUE, n |-> IntOfDigits(whole) * Scale + FracOfDigits(frac)]
    ELSE NotAFloat

\* an unsigned literal u with its points
Unsigned(u, points) ==
    IF points = {} THEN Magnitude(u, <<>>)
    ELSE IF Cardinality(points) > 1 THEN NotAFloat
    ELSE Magnitude(SubSeq(u, 1, Least(points) - 1),
                   SubSeq(u, Least(points) + 1, Len(u)))

UnsignedFloat(u) == Unsigned(u, {i \in DOMAIN u : u[i] = "."})

Negated(f) == [ok |-> f.ok, n |-> 0 - f.n]

SignedFloat(t) ==
    IF t # <<>> /\ t[1] = "-" THEN Negated(UnsignedFloat(Tail(t)))
    ELSE IF t # <<>> /\ t[1] = "+" THEN UnsignedFloat(Tail(t))
    ELSE UnsignedFloat(t)

\* float(s) on a str: an optional sign, digits, an optional point and
\* digits, spaces around; anything else raises ValueError (ok = FALSE).
\* The strings of the model hold no exponent, underscore, "inf" or "nan".
PyFloat(s) == SignedFloat(Trim(s))

-----------------------------------------------------------------------------
(* normalize_json_keys *)

InvoiceNumber == <<"I", "n", "v", "o", "i", "c", "e", " ", "N", "u", "m", "b", "e", "r">>
InvoiceDate == <<"I", "n", "v", "o", "i", "c", "e", " ", "D", "a", "t", "e">>
DueDate == <<"D", "u", "e", " ", "D", "a", "t", "e">>
VendorName == <<"V", "e", "n", "d", "o", "r", " ", "N", "a", "m", "e">>
VendorAddress == <<"V", "e", "n", "d", "o", "r", " ", "A", "d", "d", "r", "e", "s", "s">>
CustomerName == <<"C", "u", "s", "t", "o", "m", "e", "r", " ", "N", "a", "m", "e">>
CustomerAddress == <<"C", "u", "s", "t", "o", "m", "e", "r", " ", "A", "d", "d", "r", "e", "s", "s">>
Subtotal == <<"S", "u", "b", "t", "o", "t", "a", "l">>
TaxAmount == <<"T", "a", "x", " ", "A", "m", "o", "u", "n", "t">>
TotalAmount == <<"T", "o", "t", "a", "l", " ", "A", "m", "o", "u", "n", "t">>
Currency == <<"C", "u", "r", "r", "e", "n", "c", "y">>
invoice_number == <<"i", "n", "v", "o", "i", "c", "e", "_", "n", "u", "m", "b", "e", "r">>
invoice_date == <<"i", "n", "v", "o", "i", "c", "e", "_", "d", "a", "t", "e">>
due_date == <<"d", "u", "e", "_", "d", "a", "t", "e">>
vendor_name == <<"v", "e", "n", "d", "o", "r", "_", "n", "a", "m", "e">>
vendor_address == <<"v", "e", "n", "d", "o", "r", "_", "a", "d", "d", "r", "e", "s", "s">>
customer_name == <<"c", "u", "s", "t", "o", "m", "e", "r", "_", "n", "a", "m", "e">>
customer_address == <<"c", "u", "s", "t", "o", "m", "e", "r", "_", "a", "d", "d", "r", "e", "s", "s">>
subtotal == <<"s", "u", "b", "t", "o", "t", "a", "l">>
tax_amount == <<"t", "a", "x", "_", "a", "m", "o", "u", "n", "t">>
total_amount == <<"t", "o", "t", "a", "l", "_", "a", "m", "o", "u", "n", "t">>
currency == <<"c", "u", "r", "r", "e", "n", "c", "y">>
line_items == <<"l", "i", "n", "e", "_", "i", "t", "e", "m", "s">>
validation == <<"v", "a", "l", "i", "d", "a", "t", "i", "o", "n">>
enhanced_data == <<"e", "n", "h", "a", "n", "c", "e", "d", "_", "d", "a", "t", "a">>
overall_confidence == <<"o", "v", "e", "r", "a", "l", "l", "_", "c", "o", "n", "f", "i", "d", "e", "n", "c", "e">>
total_price == <<"t", "o", "t", "a", "l", "_", "p", "r", "i", "c", "e">>
TotalPrice == <<"T", "o", "t", "a", "l", " ", "P", "r", "i", "c", "e">>
amount == <<"a", "m", "o", "u", "n", "t">>
Amount == <<"A", "m", "o", "u", "n", "t">>
USD == <<"U", "S", "D">>

\* key_mapping (lines 52-64)
key_mapping ==
    << Item(InvoiceNumber, invoice_number),
       Item(InvoiceDate, invoice_date),
       Item(DueDate, due_date),
       Item(VendorName, vendor_name),
       Item(VendorAddress, vendor_address),
       Item(CustomerName, customer_name),
       Item(CustomerAddress, customer_address),
       Item(Subtotal, subtotal),
       Item(TaxAmount, tax_amount),
       Item(TotalAmount, total_amount),
       Item(Currency, currency) >>

\* a table that also sends a canonical name back to its alias
NormalizedKeyBothWays(key) ==
    IF key = total_amount THEN TotalAmount
    ELSE GetOr(key_mapping, key, LowerUnderscore(key))

\* key_mapping.get(key, key.lower().replace(" ", "_"))
NormalizedKey(key) == GetOr(key_mapping, key, LowerUnderscore(key))

RECURSIVE NormalizeItems(_, _)
NormalizeItems(items, normalized) ==
    IF items = <<>> THEN normalized
    ELSE NormalizeItems(Tail(items),
                        DictSet(normalized, NormalizedKey(Head(items).key),
                                Head(items).val))

\* normalize_json_keys(data): data.items() raises AttributeError unless data
\* is a dict
normalize_json_keys(data) ==
    IF data.k # "obj" THEN Raised("AttributeError")
    ELSE Returned(Obj(NormalizeItems(data.v, EmptyDict)))

-----------------------------------------------------------------------------
(* Stage logic: what each stage does with the model's response text *)

Dollar == "$"
Pound == "pound sign"
Euro == "euro sign"

\* confidence scores, in units of 1/Scale
Score(hundredths) == Num(hundredths * (Scale \div 100))
HeaderNominal == Score(85)
FinancialNominal == Score(90)
LineItemsNominal == Score(80)
FallbackScore == Score(50)

StageOut(data, conf) == [data |-> data, conf |-> conf]

\* lines 141-149
HeaderFallback ==
    << Item(invoice_number, Null), Item(invoice_date, Null),
       Item(due_date, Null), Item(vendor_name, Null),
       Item(vendor_address, Null), Item(customer_name, Null),
       Item(customer_address, Null) >>

\* lines 134-151: the parse result r, normalised as n
HeaderMerge(data, conf, r, n) ==
    IF r.raised = "" /\ n.raised = ""
    THEN StageOut(DictUpdate(data, n.val.v),
                  DictSet(conf, "header_extraction", HeaderNominal))
    ELSE StageOut(DictUpdate(data, HeaderFallback),
                  DictSet(conf, "header_extraction", FallbackScore))

HeaderParsed(data, conf, r) ==
    HeaderMerge(data, conf, r, normalize_json_keys(r.val))

\* extract_header_info, lines 133-151
HeaderParse(data, conf, text) ==
    HeaderParsed(data, conf, extract_json_from_response(text))

\* lines 188-193: float(str(v).replace('$', '').replace(',', '')), 0.0 on
\* ValueError; v is truthy
FloatOrZero(f) == IF f.ok THEN Num(f.n) ELSE Num(0)

CoerceAmount(v) ==
    CASE v.k = "str" -> FloatOrZero(PyFloat(Strip(v.v, {Dollar, ","})))
      [] v.k = "num" -> v
      [] v.k = "bigint" -> Num(Inf)
      [] OTHER -> Num(0)

\* lines 186-193
RECURSIVE CoerceAmounts(_, _)
CoerceAmounts(fd, keys) ==
    IF keys = <<>> THEN fd
    ELSE IF Has(fd, Head(keys)) /\ Truthy(Get(fd, Head(keys)))
    THEN CoerceAmounts(DictSet(fd, Head(keys), CoerceAmount(Get(fd, Head(keys)))),
                       Tail(keys))
    ELSE CoerceAmounts(fd, Tail(keys))

\* lines 199-204
FinancialFallback ==
    << Item(subtotal, Num(0)), Item(tax_amount, Num(0)),
       Item(total_amount, Num(0)), Item(currency, Str(USD)) >>

\* lines 182-206: the parse result r, normalised as n
FinancialMerge(data, conf, r, n) ==
    IF r.raised = "" /\ n.raised = ""
    THEN StageOut(DictUpdate(data,
                      CoerceAmounts(n.val.v,
                                    <<subtotal, tax_amount, total_amount>>)),
                  DictSet(conf, "financial_extraction", FinancialNominal))
    ELSE StageOut(DictUpdate(data, FinancialFallback),
                  DictSet(conf, "financial_extraction", FallbackScore))

FinancialParsed(data, conf, r) ==
    FinancialMerge(data, conf, r, normalize_json_keys(r.val))

\* extract_financial_info, lines 181-206
FinancialParse(data, conf, text) ==
    FinancialParsed(data, conf, extract_json_from_response(text))

\* a len() that accepts every value
HasLenAlways(v) == TRUE

\* len(v) is defined
HasLen(v) == v.k \in {"str", "arr", "obj"}

\* lines 240-245
LineItemsOf(raw) ==
    IF raw.k = "arr" THEN raw
    ELSE IF raw.k = "obj" /\ Has(raw.v, line_items) THEN Get(raw.v, line_items)
    ELSE Arr(<<>>)

\* lines 247-253: print(len(line_items)) raises TypeError unless it has a len
LineItemsStore(data, conf, r, items) ==
    IF r.raised = "" /\ HasLen(items)
    THEN StageOut(DictSet(data, line_items, items),
                  DictSet(conf, "line_items_extraction", LineItemsNominal))
    ELSE StageOut(DictSet(data, line_items, Arr(<<>>)),
                  DictSet(conf, "line_items_extraction", FallbackScore))

LineItemsParsed(data, conf, r) ==
    LineItemsStore(data, conf, r, LineItemsOf(r.val))

\* extract_line_items, lines 237-253
LineItemsParse(data, conf, text) ==
    LineItemsParsed(data, conf, extract_json_from_response(text))

Abs(x) == IF x < 0 THEN 0 - x ELSE x

Amount3(n) == [exc |-> "", n |-> n]
Overflow == [exc |-> "OverflowError", n |-> 0]

CurrencyChars == {Dollar, ",", Pound, Euro}

FloatOrNought(f) == Amount3(IF f.ok THEN f.n ELSE 0)

\* lines 275-285
PriceToFloat(tp) ==
    CASE tp.k = "str" -> FloatOrNought(PyFloat(Strip(tp.v, CurrencyChars)))
      [] tp.k = "num" -> Amount3(tp.v)
      [] tp.k = "bool" -> Amount3(IF tp.v THEN Scale ELSE 0)
      [] tp.k = "bigint" -> Overflow
      [] OTHER -> Amount3(0)

\* line 274: x or y
Or(x, y) == IF Truthy(x) THEN x ELSE y

\* line 274
ResolveTotalPrice(d) ==
    Or(GetOr(d, total_price, Null),
       Or(GetOr(d, TotalPrice, Null),
          Or(GetOr(d, amount, Null),
             Or(GetOr(d, Amount, Null), Num(0)))))

\* lines 272-285: the total of one line item
ItemTotal(item) ==
    IF item.k # "obj" THEN Amount3(0)
    ELSE PriceToFloat(ResolveTotalPrice(item.v))

RECURSIVE SumItems(_, _), SumNext(_, _, _)
SumNext(items, acc, t) ==
    IF t.exc # "" THEN t ELSE SumItems(Tail(items), acc + t.n)
SumItems(items, acc) ==
    IF items = <<>> THEN Amount3(acc)
    ELSE SumNext(items, acc, ItemTotal(Head(items)))

SumOfList(items) ==
    IF Truthy(items) /\ items.k = "arr" THEN SumItems(items.v, 0)
    ELSE Amount3(0)

\* lines 267-287
CalculatedTotal(data) == SumOfList(GetOr(data, line_items, Arr(<<>>)))

\* lines 291-298
TotalToNumber(v) ==
    IF v.k = "str" THEN FloatOrZero(PyFloat(Strip(v.v, CurrencyChars)))
    ELSE IF ~IsNumber(v) THEN Num(0)
    ELSE v

\* lines 290-298
ExtractedTotal(data) == TotalToNumber(GetOr(data, total_amount, Num(0)))

\* line 301
tolerance == Scale \div 100

\* lines 315-316
FixSubtotal(data, calc) ==
    IF ~Has(data, subtotal) \/ ~Truthy(Get(data, subtotal))
    THEN DictSet(data, subtotal, Num(calc))
    ELSE data

\* the totals compared and nothing corrected
AutoCorrectSkipped(data, calc, correct) == data

\* lines 304-317
AutoCorrect(data, calc, correct) ==
    IF correct THEN FixSubtotal(DictSet(data, total_amount, Num(calc)), calc)
    ELSE data

\* lines 353-359
Report(totals_match, ext, calc, diff) ==
    Obj(<< Item("totals_match", Bool(totals_match)),
           Item("extracted_total", ext),
           Item("calculated_total", Num(calc)),
           Item("difference", Num(diff)),
           Item("auto_corrected", Bool(~totals_match /\ calc > 0)) >>)

\* the comparison excluding the boundary
TotalsMatchStrict(diff) == diff < tolerance

\* line 302
TotalsMatch(diff) == diff <= tolerance

\* the correction without its guard on calculated_total
ReconciledUnguarded(data, ext, calc, diff) ==
    [exc |-> "",
     data |-> AutoCorrect(data, calc, ~TotalsMatch(diff)),
     report |-> Report(TotalsMatch(diff), ext, calc, diff)]

\* lines 302-317 and 353-359
Reconciled(data, ext, calc, diff) ==
    [exc |-> "",
     data |-> AutoCorrect(data, calc, ~TotalsMatch(diff) /\ calc > 0),
     report |-> Report(TotalsMatch(diff), ext, calc, diff)]

\* the value of a number in arithmetic
NumberOf(v) == IF v.k = "bool" THEN (IF v.v THEN Scale ELSE 0) ELSE v.v

Unreconciled(data, exc) == [exc |-> exc, data |-> data, report |-> Null]

\* calc - ext raises OverflowError when ext is an int beyond a float
Compare(data, calc, ext) ==
    IF calc.exc # "" THEN Unreconciled(data, calc.exc)
    ELSE IF ext.k = "bigint" THEN Unreconciled(data, "OverflowError")
    ELSE Reconciled(data, ext, calc.n, Abs(calc.n - NumberOf(ext)))

\* lines 266-317 and 353-359: the totals, the auto-correction and the report
Reconcile(data) == Compare(data, CalculatedTotal(data), ExtractedTotal(data))

RECURSIVE SumScores(_)
SumScores(conf) ==
    IF conf = <<>> THEN 0 ELSE Head(conf).val.v + SumScores(Tail(conf))

\* lines 348-349
AverageConfidence(conf) ==
    IF conf # <<>> THEN Num(SumScores(conf) \div Len(conf)) ELSE FallbackScore

\* key in v, for a str key: TypeError unless v is a str, a list or a dict
InRaises(v) == v.k \in {"null", "num", "bool", "bigint"}
In(v, key) ==
    CASE v.k = "obj" -> Has(v.v, key)
      [] v.k = "arr" -> \E i \in DOMAIN v.v : v.v[i].k = "str" /\ v.v[i].v = key
      [] v.k = "str" -> Contains(v.v, key)
      [] OTHER -> FALSE

\* lines 347-349
ValidationFallback(data, conf) ==
    StageOut(data, DictSet(conf, "overall", AverageConfidence(conf)))

\* lines 341-345 on a dict vr whose enhanced_data normalises to enhanced
ValidationMerge(data, conf, vr, enhanced) ==
    IF Has(vr, enhanced_data) /\ enhanced.raised # ""
    THEN ValidationFallback(data, conf)
    ELSE StageOut(IF Has(vr, enhanced_data)
                  THEN DictUpdate(data, enhanced.val.v) ELSE data,
                  IF Has(vr, overall_confidence)
                  THEN DictSet(conf, "overall", Get(vr, overall_confidence))
                  ELSE conf)

\* lines 340-350 on the parse result r
ValidationParsed(data, conf, r) ==
    IF r.raised # "" \/ InRaises(r.val) THEN ValidationFallback(data, conf)
    ELSE IF r.val.k # "obj"
         THEN IF In(r.val, enhanced_data) \/ In(r.val, overall_confidence)
              THEN ValidationFallback(data, conf)
              ELSE StageOut(data, conf)
    ELSE ValidationMerge(data, conf, r.val.v,
                         normalize_json_keys(GetOr(r.val.v, enhanced_data, Null)))

\* validate_and_enhance_data, lines 339-350
ValidationParse(data, conf, text) ==
    ValidationParsed(data, conf, extract_json_from_response(text))

-----------------------------------------------------------------------------
(* The parser applied to response texts *)

keyA == <<"a">>
keyB == <<"b">>
One == Num(Scale)

\* tokens of the enumerated texts
ParserAlphabet ==
    {LBrace, RBrace, LBrack, RBrack, Comma, Lit(One), Fence, Prose}

RECURSIVE TextsUpTo(_)
TextsUpTo(n) ==
    IF n = 0 THEN {<<>>}
    ELSE LET shorter == TextsUpTo(n - 1)
         IN  shorter \cup {Append(t, tok) : t \in shorter, tok \in ParserAlphabet}

ObjA == <<LBrace, Lit(Str(keyA)), Colon, Lit(One), RBrace>>
ObjB == <<LBrace, Lit(Str(keyB)), Colon, Lit(Null), RBrace>>
ObjNested == <<LBrace, Lit(Str(keyA)), Colon>> \o ObjB \o <<RBrace>>
ObjWithArr == <<LBrace, Lit(Str(keyA)), Colon, LBrack, Lit(One), RBrack, RBrace>>
ArrOfObj == <<LBrack>> \o ObjA \o <<RBrack>>
ArrOfTwoObj == <<LBrack>> \o ObjA \o <<Comma>> \o ObjB \o <<RBrack>>

\* longer texts: nested JSON, two objects in prose, an object followed by
\* prose holding a brace, a broken fenced block, over-limit literals
WrittenTexts ==
    { ObjA, ObjB, ObjNested, ObjWithArr, ArrOfObj, ArrOfTwoObj,
      <<Prose, Ws>> \o ObjA \o <<Ws, Prose, Ws>> \o ObjB,
      ObjA \o <<Ws, Prose, RBrace>>,
      <<Fence, JsonTag, Ws, LBrace, Prose, RBrace, Ws, Fence, Prose>> \o ObjA,
      <<Fence, Ws>> \o ObjA \o <<Ws, Fence, Ws, Fence, Ws>> \o ObjB \o <<Ws, Fence>>,
      <<OverLimit>>,
      <<LBrace, Lit(Str(keyA)), Colon, OverLimit, RBrace>>,
      <<Prose, LBrace, Lit(Str(keyA)), Colon, OverLimit, RBrace>>,
      <<Fence, LBrace, Lit(Str(keyA)), Colon, OverLimit, RBrace, Fence>> }

ParserTexts == TextsUpTo(MaxTextLen) \cup WrittenTexts

Forms == {"fence", "fencejson", "prose"}

\* the text J as a model writes it: in a fenced code block (with or without
\* the json tag), or surrounded by prose
Wrap(form, J) ==
    CASE form = "fence" -> <<Fence, Ws>> \o J \o <<Ws, Fence>>
      [] form = "fencejson" -> <<Fence, JsonTag, Ws>> \o J \o <<Ws, Fence>>
      [] form = "prose" -> <<Prose, Ws>> \o J \o <<Ws, Prose>>

NotCalled == [called |-> FALSE, raised |-> "", val |-> Null]
CallResult(r) == [called |-> TRUE, raised |-> r.raised, val |-> r.val]

NoResult == [returned |-> FALSE]

\* the pipeline state as InvoiceState() constructs it (lines 74-81)
InitState ==
    /\ raw_text = <<>>
    /\ extracted_data = EmptyDict
    /\ confidence_scores = EmptyDict
    /\ processing_time = 0
    /\ status = "processing"
    /\ error_message = <<>>
    /\ pc = "loop"
    /\ idx = 1
    /\ ran = <<>>
    /\ calls = <<>>
    /\ result = NoResult
    /\ extracted_json = Null

\* no text is being parsed
IdleParser ==
    /\ porig = <<>>
    /\ pform = "plain"
    /\ ptext = <<>>
    /\ presult = NotCalled

\* no mapping is being normalised
IdleNormalizer ==
    /\ ndata = Null
    /\ nresult = NotCalled

\* no pair of calls is running
IdlePair ==
    /\ runs = <<>>
    /\ dicts = <<>>

\* nothing was uploaded
IdleTasks ==
    /\ invoice = [stored |-> FALSE]
    /\ tasks = <<>>
    /\ request = [handled |-> FALSE]
    /\ lastcommit = [task |-> 0]

InitParser ==
    /\ InitState
    /\ IdleNormalizer
    /\ IdlePair
    /\ IdleTasks
    /\ porig \in ParserTexts
    /\ pform = "plain"
    /\ ptext = porig
    /\ presult = NotCalled

\* extract_json_from_response(ptext)
CallParser ==
    /\ ~presult.called
    /\ presult' = CallResult(extract_json_from_response(ptext))
    /\ UNCHANGED <<porig, pform, ptext, stateVars, normalizerVars, pairVars, taskVars>>

\* the same text given again in another form
GiveWrapped ==
    /\ pform = "plain"
    /\ presult.called
    /\ \E form \in Forms :
          /\ pform' = form
          /\ ptext' = Wrap(form, porig)
    /\ presult' = NotCalled
    /\ UNCHANGED <<porig, stateVars, normalizerVars, pairVars, taskVars>>

NextParser == CallParser \/ GiveWrapped

SpecParser == InitParser /\ [][NextParser]_vars

-----------------------------------------------------------------------------
(* The normaliser applied to mappings *)

\* keys a response may carry besides the aliases of the table: unknown
\* keys, an alias in another case, a canonical name
UnlistedKeys ==
    { <<"P", "O", " ", "N", "o">>,
      <<"n", "o", "t", "e", "s">>,
      <<"S", "h", "i", "p", " ", "T", "o", " ", "Z", "i", "p">>,
      <<"T", "O", "T", "A", "L", " ", "A", "M", "O", "U", "N", "T">>,
      total_amount }

NormalizerKeys == Keys(key_mapping) \cup UnlistedKeys

NormalizerValues == {One, Null}

\* the mappings of at most n items, keys distinct
RECURSIVE MappingsUpTo(_)
MappingsUpTo(n) ==
    IF n = 0 THEN {EmptyDict}
    ELSE MappingsUpTo(n - 1) \cup
         { Append(d, Item(key, val)) :
              d \in {m \in MappingsUpTo(n - 1) : Len(m) = n - 1},
              key \in NormalizerKeys, val \in NormalizerValues }

DistinctKeys(d) == \A i, j \in DOMAIN d : d[i].key = d[j].key => i = j

NormalizerInputs ==
    {Obj(d) : d \in {m \in MappingsUpTo(MaxKeys) : DistinctKeys(m)}}
        \cup {Null, Arr(<<>>)}

InitNormalizer ==
    /\ InitState
    /\ IdleParser
    /\ IdlePair
    /\ IdleTasks
    /\ ndata \in NormalizerInputs
    /\ nresult = NotCalled

\* normalize_json_keys(ndata)
CallNormalizer ==
    /\ ~nresult.called
    /\ nresult' = CallResult(normalize_json_keys(ndata))
    /\ UNCHANGED <<ndata, stateVars, parserVars, pairVars, taskVars>>

\* normalize_json_keys applied to the mapping it returned
CallNormalizerAgain ==
    /\ nresult.called
    /\ nresult.raised = ""
    /\ ndata' = nresult.val
    /\ nresult' = CallResult(normalize_json_keys(nresult.val))
    /\ UNCHANGED <<stateVars, parserVars, pairVars, taskVars>>

NextNormalizer == CallNormalizer \/ CallNormalizerAgain

SpecNormalizer == InitNormalizer /\ [][NextNormalizer]_vars

-----------------------------------------------------------------------------
(* The model's responses *)

\* json.dumps(v) as a token text
RECURSIVE JsonText(_), JsonElems(_), JsonMembers(_)
JsonText(v) ==
    CASE v.k = "arr" -> <<LBrack>> \o JsonElems(v.v) \o <<RBrack>>
      [] v.k = "obj" -> <<LBrace>> \o JsonMembers(v.v) \o <<RBrace>>
      [] OTHER -> <<Lit(v)>>
JsonElems(vs) ==
    IF vs = <<>> THEN <<>>
    ELSE IF Len(vs) = 1 THEN JsonText(vs[1])
    ELSE JsonText(vs[1]) \o <<Comma, Ws>> \o JsonElems(Tail(vs))
JsonMembers(items) ==
    IF items = <<>> THEN <<>>
    ELSE LET m == <<Lit(Str(items[1].key)), Colon, Ws>> \o JsonText(items[1].val)
         IN  IF Len(items) = 1 THEN m
             ELSE m \o <<Comma, Ws>> \o JsonMembers(Tail(items))

Garbage == <<Prose, Ws, Prose>>

HeaderResponses ==
    { JsonText(Obj(<<Item(InvoiceNumber, Str(<<"7">>)), Item(DueDate, Null)>>)),
      Wrap("fencejson", JsonText(Obj(<<Item(VendorName, Str(<<"A">>))>>))),
      JsonText(Obj(<<Item(TotalAmount, Str(<<"$", "5">>))>>)),
      JsonText(Obj(<<Item(TotalAmount, BigInt)>>)),
      JsonText(Arr(<<>>)),
      <<OverLimit>>,
      Garbage }

\* the amount text 1,234.56
Amount1234 == <<"1", ",", "2", "3", "4", ".", "5", "6">>

FinancialResponses ==
    { JsonText(Obj(<<Item(Subtotal, Num(0)), Item(TaxAmount, Num(0)),
                     Item(TotalAmount, Num(140 * Scale)),
                     Item(Currency, Str(USD))>>)),
      Wrap("prose", JsonText(Obj(<<Item(Subtotal, Str(<<"$", "1", "0", "0", ".", "0", "0">>)),
                                   Item(TotalAmount, Str(<<"$", "1", ",", "2", "3", "4", ".", "5", "6">>))>>))),
      JsonText(Obj(<<Item(TotalAmount, Null), Item(Subtotal, Str(<<>>))>>)),
      \* totals 0.01 and 0.011 away from line items of 150.00
      JsonText(Obj(<<Item(TotalAmount, Num(150 * Scale + Scale \div 100))>>)),
      JsonText(Obj(<<Item(TotalAmount, Num(150 * Scale + Scale \div 100 + Scale \div 1000))>>)),
      \* amounts in three currencies
      JsonText(Obj(<<Item(Subtotal, Str(<<Euro>> \o Amount1234)),
                     Item(TaxAmount, Str(<<Dollar>> \o Amount1234)),
                     Item(TotalAmount, Str(<<Pound>> \o Amount1234))>>)),
      JsonText(Null),
      Garbage }

LineItemsResponses ==
    { JsonText(Arr(<< Obj(<<Item(total_price, Str(<<"$", "1", "0", "0", ".", "0", "0">>))>>),
                      Obj(<<Item(total_price, Str(<<"$", "5", "0", ".", "0", "0">>))>>) >>)),
      JsonText(Obj(<<Item(line_items,
                          Arr(<<Obj(<<Item(amount, Num(140 * Scale))>>)>>))>>)),
      Wrap("fence", JsonText(Arr(<<Obj(<<Item(Amount, Num(150 * Scale))>>)>>))),
      JsonText(Arr(<<Obj(<<Item(TotalPrice, BigInt)>>)>>)),
      \* items whose first alias holds 0 or "" and a later alias an amount
      JsonText(Arr(<< Obj(<<Item(total_price, Num(0)), Item(amount, Num(5 * Scale))>>),
                      Obj(<<Item(TotalPrice, Str(<<>>)), Item(Amount, Num(7 * Scale))>>) >>)),
      \* a credit line
      JsonText(Arr(<<Obj(<<Item(amount, Num(0 - 5 * Scale))>>)>>)),
      JsonText(Obj(<<Item(line_items, Null)>>)),
      JsonText(Obj(<<Item(line_items, Str(<<"n", "o">>))>>)),
      <<OverLimit>>,
      Garbage }

ValidationResponses ==
    { JsonText(Obj(<<>>)),
      JsonText(Obj(<<Item(overall_confidence, Score(95))>>)),
      JsonText(Obj(<<Item(overall_confidence, Num(95 * Scale))>>)),
      JsonText(Obj(<<Item(overall_confidence, Str(<<"h", "i", "g", "h">>))>>)),
      JsonText(Obj(<<Item(enhanced_data,
                          Obj(<<Item(TotalAmount, Str(<<"$", "5">>)),
                                Item(Subtotal, Null),
                                Item(line_items, Arr(<<>>)),
                                Item(validation, Str(<<"o", "k">>))>>))>>)),
      JsonText(Num(7 * Scale)),
      Garbage }

\* str(e) of the exceptions the collaborators raise
ErrorTexts == {"", "quota exceeded"}

\* the text of the documents
DocumentTexts == {<<>>, <<"I", "N", "V">>}

-----------------------------------------------------------------------------
(* InvoiceExtractionWorkflow.run and extract_invoice_data *)

\* the node list with the financial and line-items stages exchanged
nodesExchanged ==
    << "extract_text", "extract_header", "extract_line_items",
       "extract_financial", "validate_data" >>

\* self.nodes (lines 374-380)
nodes ==
    << "extract_text", "extract_header", "extract_financial",
       "extract_line_items", "validate_data" >>

\* the for loop is about to call the node named name (lines 386-389)
AtNode(name) ==
    /\ pc = "loop"
    /\ idx <= Len(nodes)
    /\ nodes[idx] = name
    /\ ran' = Append(ran, name)

\* the loop without its break
LoopControlNoBreak ==
    /\ idx' = idx + 1
    /\ pc' = IF idx = Len(nodes) THEN "returned" ELSE "loop"

\* the loop breaking on the wrong status
LoopControlWrongStatus ==
    IF status' = "completed"
    THEN pc' = "returned" /\ idx' = idx
    ELSE /\ idx' = idx + 1
         /\ pc' = IF idx = Len(nodes) THEN "returned" ELSE "loop"

\* the loop never leaving after its last node
LoopControlNoReturn ==
    IF status' = "failed"
    THEN pc' = "returned" /\ idx' = idx
    ELSE idx' = idx + 1 /\ pc' = "loop"

\* lines 391-393 and 400: break on failed, else the next node; the loop's
\* end returns the state
LoopControl ==
    IF status' = "failed"
    THEN pc' = "returned" /\ idx' = idx
    ELSE /\ idx' = idx + 1
         /\ pc' = IF idx = Len(nodes) THEN "returned" ELSE "loop"

\* groq_client.invoke(messages) returned text
Answered(name, text) == [node |-> name, raised |-> FALSE, text |-> text]
\* groq_client.invoke(messages) raised
Failed(name) == [node |-> name, raised |-> TRUE, text |-> <<>>]

\* an except branch that records the message and leaves the status
HardFailureStatusKept(prefix, e) ==
    /\ error_message' = <<prefix, e>>
    /\ status' = status

\* the except branch of a stage (lines 103-105, 155-157, 210-212, 257-259,
\* 364-366)
HardFailure(prefix, e) ==
    /\ error_message' = <<prefix, e>>
    /\ status' = "failed"

\* Node 1 (lines 84-106)
extract_text_from_pdf ==
    /\ AtNode("extract_text")
    /\ \/ \E text \in DocumentTexts, elapsed \in 0..MaxElapsed :
             /\ raw_text' = text
             /\ processing_time' = elapsed
             /\ UNCHANGED <<status, error_message>>
       \/ \E e \in ErrorTexts :
             /\ HardFailure("Text extraction failed: ", e)
             /\ UNCHANGED <<raw_text, processing_time>>
    /\ UNCHANGED <<extracted_data, confidence_scores, calls, result,
                   extracted_json, parserVars, normalizerVars, pairVars, taskVars>>
    /\ LoopControl

\* Node 2 (lines 109-158)
extract_header_info ==
    /\ AtNode("extract_header")
    /\ \/ \E text \in HeaderResponses :
             LET out == HeaderParse(extracted_data, confidence_scores, text)
             IN  /\ calls' = Append(calls, Answered("extract_header", text))
                 /\ extracted_data' = out.data
                 /\ confidence_scores' = out.conf
                 /\ UNCHANGED <<status, error_message>>
       \/ \E e \in ErrorTexts :
             /\ calls' = Append(calls, Failed("extract_header"))
             /\ HardFailure("Header extraction failed: ", e)
             /\ UNCHANGED <<extracted_data, confidence_scores>>
    /\ UNCHANGED <<raw_text, processing_time, result, extracted_json,
                   parserVars, normalizerVars, pairVars, taskVars>>
    /\ LoopControl

\* Node 3 (lines 161-213)
extract_financial_info ==
    /\ AtNode("extract_financial")
    /\ \/ \E text \in FinancialResponses :
             LET out == FinancialParse(extracted_data, confidence_scores, text)
             IN  /\ calls' = Append(calls, Answered("extract_financial", text))
                 /\ extracted_data' = out.data
                 /\ confidence_scores' = out.conf
                 /\ UNCHANGED <<status, error_message>>
       \/ \E e \in ErrorTexts :
             /\ calls' = Append(calls, Failed("extract_financial"))
             /\ HardFailure("Financial extraction failed: ", e)
             /\ UNCHANGED <<extracted_data, confidence_scores>>
    /\ UNCHANGED <<raw_text, processing_time, result, extracted_json,
                   parserVars, normalizerVars, pairVars, taskVars>>
    /\ LoopControl

\* Node 4 (lines 216-260)
extract_line_items ==
    /\ AtNode("extract_line_items")
    /\ \/ \E text \in LineItemsResponses :
             LET out == LineItemsParse(extracted_data, confidence_scores, text)
             IN  /\ calls' = Append(calls, Answered("extract_line_items", text))
                 /\ extracted_data' = out.data
                 /\ confidence_scores' = out.conf
                 /\ UNCHANGED <<status, error_message>>
       \/ \E e \in ErrorTexts :
             /\ calls' = Append(calls, Failed("extract_line_items"))
             /\ HardFailure("Line items extraction failed: ", e)
             /\ UNCHANGED <<extracted_data, confidence_scores>>
    /\ UNCHANGED <<raw_text, processing_time, result, extracted_json,
                   parserVars, normalizerVars, pairVars, taskVars>>
    /\ LoopControl

\* the stage returning without recording its completion
CompleteForgotten == status' = status

\* line 361
Complete == status' = "completed"

\* Node 5 (lines 263-367)
validate_and_enhance_data ==
    /\ AtNode("validate_data")
    /\ \E rec \in {Reconcile(extracted_data)} :
           \/ \* an exception before the model is invoked (lines 283, 302)
              /\ rec.exc # ""
              /\ HardFailure("Validation failed: ", rec.exc)
              /\ UNCHANGED <<extracted_data, confidence_scores, calls,
                             extracted_json>>
           \/ /\ rec.exc = ""
              /\ extracted_json' = Obj(rec.data)
              /\ \E text \in ValidationResponses :
                    LET out == ValidationParse(rec.data, confidence_scores, text)
                    IN  /\ calls' = Append(calls, Answered("validate_data", text))
                        /\ extracted_data' = DictSet(out.data, validation, rec.report)
                        /\ confidence_scores' = out.conf
                        /\ Complete
                        /\ UNCHANGED error_message
           \/ /\ rec.exc = ""
              /\ extracted_json' = Obj(rec.data)
              /\ \E e \in ErrorTexts :
                    /\ calls' = Append(calls, Failed("validate_data"))
                    /\ extracted_data' = rec.data
                    /\ HardFailure("Validation failed: ", e)
                    /\ UNCHANGED confidence_scores
    /\ UNCHANGED <<raw_text, processing_time, result, parserVars,
                   normalizerVars, pairVars, taskVars>>
    /\ LoopControl

\* a snapshot that leaves the error message out
ReturnSnapshotWithoutMessage ==
    /\ pc = "returned"
    /\ pc' = "done"
    /\ result' = [returned |-> TRUE,
                  status |-> status,
                  extracted_data |-> extracted_data,
                  confidence_scores |-> confidence_scores,
                  processing_time |-> processing_time]
    /\ UNCHANGED <<raw_text, extracted_data, confidence_scores, processing_time,
                   status, error_message, idx, ran, calls, extracted_json,
                   parserVars, normalizerVars, pairVars, taskVars>>

\* a snapshot that reports no elapsed time
ReturnSnapshotUntimed ==
    /\ pc = "returned"
    /\ pc' = "done"
    /\ result' = [returned |-> TRUE,
                  status |-> status,
                  extracted_data |-> extracted_data,
                  confidence_scores |-> confidence_scores,
                  processing_time |-> 0,
                  error_message |-> error_message]
    /\ UNCHANGED <<raw_text, extracted_data, confidence_scores, processing_time,
                   status, error_message, idx, ran, calls, extracted_json,
                   parserVars, normalizerVars, pairVars, taskVars>>

\* extract_invoice_data, lines 415-423: the snapshot of the final state
ReturnSnapshot ==
    /\ pc = "returned"
    /\ pc' = "done"
    /\ result' = [returned |-> TRUE,
                  status |-> status,
                  extracted_data |-> extracted_data,
                  confidence_scores |-> confidence_scores,
                  processing_time |-> processing_time,
                  error_message |-> error_message]
    /\ UNCHANGED <<raw_text, extracted_data, confidence_scores, processing_time,
                   status, error_message, idx, ran, calls, extracted_json,
                   parserVars, normalizerVars, pairVars, taskVars>>

Init ==
    /\ InitState
    /\ IdleParser
    /\ IdleNormalizer
    /\ IdlePair
    /\ IdleTasks

Next ==
    \/ extract_text_from_pdf
    \/ extract_header_info
    \/ extract_financial_info
    \/ extract_line_items
    \/ validate_and_enhance_data
    \/ ReturnSnapshot

Spec == Init /\ [][Next]_vars

\* the loop calls its next node and the call ends (line 389)
NodeCalled == \E i \in DOMAIN nodes : AtNode(nodes[i])

\* the run under the assumption that the document read and every model
\* invocation eventually return or raise: each call of a node then ends,
\* and the synchronous code of lines 400-423 returns the snapshot
SpecFair == Spec /\ WF_ran(NodeCalled) /\ WF_vars(ReturnSnapshot)

\* the three parse attempts of lines 28, 34 and 42 all fail on text
AllParsesFail(text) ==
    /\ ~JsonLoads(text).ok
    /\ ~(FenceSearch(text).found /\ JsonLoads(FenceSearch(text).span).ok)
    /\ ~(BraceSearch(text).found /\ JsonLoads(BraceSearch(text).span).ok)

-----------------------------------------------------------------------------
(* Two calls of extract_invoice_data at once.  Each call constructs its own *)
(* InvoiceState; the two dicts of a state are objects the state refers to,  *)
(* and the stages update them in place.                                      *)

Runs == {1, 2}

\* InvoiceState with one pair of dicts for every instance
SharedDicts(r) == [extracted_data |-> 1, confidence_scores |-> 2]

\* lines 77-78: every InvoiceState() constructs its own two dicts
NewDicts(r) == [extracted_data |-> 2 * r - 1, confidence_scores |-> 2 * r]

\* what a stage's collaborator does: the document read (stage 1) or the
\* model invocation (stages 2-5) returns, or raises
Said(text) == [raised |-> FALSE, e |-> "", text |-> text, elapsed |-> 0]
Threw(e) == [raised |-> TRUE, e |-> e, text |-> <<>>, elapsed |-> 0]

\* the state a stage receives, its dicts read through their references
FreshState ==
    [raw_text |-> <<>>, extracted_data |-> EmptyDict,
     confidence_scores |-> EmptyDict, processing_time |-> 0,
     status |-> "processing", error_message |-> <<>>]

\* the except branch of a stage
Raise(L, prefix, e) ==
    [L EXCEPT !.status = "failed", !.error_message = <<prefix, e>>]

Stored(L, out) ==
    [L EXCEPT !.extracted_data = out.data, !.confidence_scores = out.conf]

\* extract_text_from_pdf(state)
TextNode(L, inp) ==
    IF inp.raised THEN Raise(L, "Text extraction failed: ", inp.e)
    ELSE [L EXCEPT !.raw_text = inp.text, !.processing_time = inp.elapsed]

\* extract_header_info(state)
HeaderNode(L, inp) ==
    IF inp.raised THEN Raise(L, "Header extraction failed: ", inp.e)
    ELSE Stored(L, HeaderParse(L.extracted_data, L.confidence_scores, inp.text))

\* extract_financial_info(state)
FinancialNode(L, inp) ==
    IF inp.raised THEN Raise(L, "Financial extraction failed: ", inp.e)
    ELSE Stored(L, FinancialParse(L.extracted_data, L.confidence_scores, inp.text))

\* extract_line_items(state)
LineItemsNode(L, inp) ==
    IF inp.raised THEN Raise(L, "Line items extraction failed: ", inp.e)
    ELSE Stored(L, LineItemsParse(L.extracted_data, L.confidence_scores, inp.text))

\* lines 353-361
Validated(L, rec, out) ==
    [L EXCEPT !.extracted_data = DictSet(out.data, validation, rec.report),
              !.confidence_scores = out.conf,
              !.status = "completed"]

\* lines 337-367, the totals reconciled as rec
ValidationInvoked(L, rec, inp) ==
    IF rec.exc # "" THEN Raise(L, "Validation failed: ", rec.exc)
    ELSE IF inp.raised
    THEN Raise([L EXCEPT !.extracted_data = rec.data], "Validation failed: ", inp.e)
    ELSE Validated(L, rec, ValidationParse(rec.data, L.confidence_scores, inp.text))

\* validate_and_enhance_data(state)
ValidationNode(L, inp) ==
    ValidationInvoked(L, Reconcile(L.extracted_data), inp)

\* node_func(current_state), line 389
NodeFunc(name, L, inp) ==
    CASE name = "extract_text" -> TextNode(L, inp)
      [] name = "extract_header" -> HeaderNode(L, inp)
      [] name = "extract_financial" -> FinancialNode(L, inp)
      [] name = "extract_line_items" -> LineItemsNode(L, inp)
      [] name = "validate_data" -> ValidationNode(L, inp)

\* what the collaborators do in the runs of the pair
PairInputs(name) ==
    CASE name = "extract_text" -> {Said(<<"I", "N", "V">>), Threw("")}
      [] name = "extract_header" ->
            { Said(JsonText(Obj(<<Item(InvoiceNumber, Str(<<"7">>))>>))),
              Said(Garbage), Threw("quota exceeded") }
      [] name = "extract_financial" ->
            { Said(JsonText(Obj(<<Item(Subtotal, Num(0)),
                                  Item(TotalAmount, Num(140 * Scale))>>))),
              Threw("") }
      [] name = "extract_line_items" ->
            { Said(JsonText(Arr(<< Obj(<<Item(total_price, Num(100 * Scale))>>),
                                   Obj(<<Item(total_price, Num(50 * Scale))>>) >>))),
              Said(JsonText(Arr(<<Obj(<<Item(TotalPrice, BigInt)>>)>>))),
              Threw("") }
      [] name = "validate_data" ->
            { Said(JsonText(Obj(<<>>))),
              Said(JsonText(Obj(<<Item(overall_confidence, Score(95))>>))),
              Threw("") }

\* a call's state object and loop position; inputs logs what the
\* collaborators did for it, overlapped that it ran a node while the other
\* call was between two of its nodes
NewRun(refs) ==
    [raw_text |-> <<>>, extracted_data |-> refs.extracted_data,
     confidence_scores |-> refs.confidence_scores, processing_time |-> 0,
     status |-> "processing", error_message |-> <<>>,
     pc |-> "loop", idx |-> 1, inputs |-> <<>>, overlapped |-> FALSE]

\* the state of call r, its dicts read through their references
Deref(r) ==
    [raw_text |-> runs[r].raw_text,
     extracted_data |-> dicts[runs[r].extracted_data],
     confidence_scores |-> dicts[runs[r].confidence_scores],
     processing_time |-> runs[r].processing_time,
     status |-> runs[r].status,
     error_message |-> runs[r].error_message]

\* lines 386-400 for one call: the node has returned L
Advanced(run, L, inp, mid) ==
    [run EXCEPT !.raw_text = L.raw_text,
                !.processing_time = L.processing_time,
                !.status = L.status,
                !.error_message = L.error_message,
                !.inputs = Append(@, inp),
                !.overlapped = @ \/ mid,
                !.idx = IF L.status = "failed" THEN @ ELSE @ + 1,
                !.pc = IF L.status = "failed" \/ run.idx = Len(nodes)
                       THEN "returned" ELSE "loop"]

\* the dicts after the node of call r has updated its own in place
Updated(r, L) ==
    [a \in DOMAIN dicts |->
        IF a = runs[r].confidence_scores THEN L.confidence_scores
        ELSE IF a = runs[r].extracted_data THEN L.extracted_data
        ELSE dicts[a]]

\* another call is between two of its nodes
OtherMidRun(r) ==
    \E o \in Runs \ {r} : runs[o].pc = "loop" /\ runs[o].idx > 1

PairNodeDone(r, L, inp) ==
    /\ runs' = [runs EXCEPT ![r] = Advanced(@, L, inp, OtherMidRun(r))]
    /\ dicts' = Updated(r, L)

\* call r runs its next node
PairNode(r) ==
    /\ runs[r].pc = "loop"
    /\ \E inp \in PairInputs(nodes[runs[r].idx]) :
          PairNodeDone(r, NodeFunc(nodes[runs[r].idx], Deref(r), inp), inp)
    /\ UNCHANGED <<stateVars, parserVars, normalizerVars,
                   taskVars>>

\* call r returns its snapshot (lines 417-423): the snapshot refers to the
\* dicts of the state
PairReturn(r) ==
    /\ runs[r].pc = "returned"
    /\ runs' = [runs EXCEPT ![r].pc = "done"]
    /\ UNCHANGED <<dicts, stateVars, parserVars, normalizerVars,
                   taskVars>>

InitPair ==
    /\ InitState
    /\ IdleParser
    /\ IdleNormalizer
    /\ IdleTasks
    /\ runs = [r \in Runs |-> NewRun(NewDicts(r))]
    /\ dicts = [a \in 1..(2 * Cardinality(Runs)) |-> EmptyDict]

FirstCallSteps == PairNode(1) \/ PairReturn(1)
SecondCallSteps == PairNode(2) \/ PairReturn(2)

NextPair == FirstCallSteps \/ SecondCallSteps

SpecPair == InitPair /\ [][NextPair]_vars

-----------------------------------------------------------------------------
(* The keys as the claims name them *)

\* the name the alias table gives a key
AliasTable ==
    { <<InvoiceNumber, invoice_number>>, <<InvoiceDate, invoice_date>>,
      <<DueDate, due_date>>, <<VendorName, vendor_name>>,
      <<VendorAddress, vendor_address>>, <<CustomerName, customer_name>>,
      <<CustomerAddress, customer_address>>, <<Subtotal, subtotal>>,
      <<TaxAmount, tax_amount>>, <<TotalAmount, total_amount>>,
      <<Currency, currency>> }

\* lower-cased, spaces replaced by underscores
SnakeCase(key) ==
    [i \in DOMAIN key |->
        IF key[i] = " " THEN "_"
        ELSE IF \E j \in DOMAIN UpperCase : UpperCase[j] = key[i]
        THEN LowerCase[CHOOSE j \in DOMAIN UpperCase : UpperCase[j] = key[i]]
        ELSE key[i]]

\* the key the claim gives: the alias's canonical name, else the snake case
ExpectedKey(key) ==
    IF \E p \in AliasTable : p[1] = key
    THEN (CHOOSE p \in AliasTable : p[1] = key)[2]
    ELSE SnakeCase(key)

-----------------------------------------------------------------------------
(* Claims about the pipeline run, checked under Spec *)

runState == <<raw_text, extracted_data, confidence_scores, processing_time,
              status, error_message, ran, calls>>

\* the text is empty
IsEmptyText(m) == \A i \in DOMAIN m : m[i] = ""

\* C1: once a stage has left status = failed, no later stage runs (no model
\* invocation, no write to the fields or the confidence), and the state is
\* returned exactly as the failing stage left it.
C1_ShortCircuit ==
    [][status = "failed" =>
          /\ UNCHANGED runState
          /\ result'.returned =>
                /\ result'.status = "failed"
                /\ result'.extracted_data = extracted_data
                /\ result'.confidence_scores = confidence_scores
                /\ result'.processing_time = processing_time
                /\ result'.error_message = error_message]_vars

\* a hard failure at stage 2 was returned: stages 3-5 did not run
C1_Witness ==
    /\ result.returned
    /\ result.status = "failed"
    /\ ran = <<"extract_text", "extract_header">>
    /\ calls = <<Failed("extract_header")>>

\* C2: status starts as processing and only moves processing -> completed
\* or processing -> failed; once completed or failed it never changes.
C2_StatusForward ==
    /\ status = "processing"
    /\ [][/\ status' \in {"processing", "completed", "failed"}
          /\ status # "processing" => status' = status]_vars

\* both terminal statuses have been left behind by a finished run
C2_Witness == pc = "done" /\ status = "completed" /\ Len(ran) = Len(nodes)

StageOrder ==
    << "extract_text", "extract_header", "extract_financial",
       "extract_line_items", "validate_data" >>

\* C3: the stages run in the order text, header, financial, line items,
\* validation; each at most once and none before all its predecessors; the
\* model is invoked in that same order.
C3_StageOrder ==
    /\ Len(ran) <= Len(StageOrder)
    /\ \A i \in DOMAIN ran : ran[i] = StageOrder[i]
    /\ \A i \in DOMAIN calls : calls[i].node = StageOrder[i + 1]
    /\ pc = "loop" => idx = Len(ran) + 1

C3_Witness == ran = StageOrder /\ Len(calls) = 4

\* C4: a hard failure (the document read failing in stage 1, the model
\* invocation raising in stages 2-5) sets status = failed with a non-empty
\* failure reason; it is not retried (at most one invocation per stage); and
\* when stage 1 fails the model is never invoked.
C4_HardFailure ==
    /\ \A i \in DOMAIN calls :
          calls[i].raised =>
             /\ i = Len(calls)
             /\ status = "failed"
             /\ ~IsEmptyText(error_message)
             /\ ran[Len(ran)] = calls[i].node
    /\ \A i, j \in DOMAIN calls : calls[i].node = calls[j].node => i = j
    /\ (status = "failed" /\ ran = <<"extract_text">>) =>
          /\ calls = <<>>
          /\ ~IsEmptyText(error_message)

\* the model invocation of the line-items stage raised, with an empty str(e)
C4_Witness ==
    /\ Len(calls) = 3
    /\ calls[3].raised
    /\ status = "failed"
    /\ error_message = <<"Line items extraction failed: ", "">>

\* every model invocation so far returned a text, and stage 1 succeeded
AllAnswered ==
    /\ Len(ran) >= 1
    /\ ~(status = "failed" /\ Len(ran) = 1)
    /\ \A i \in DOMAIN calls : ~calls[i].raised

\* C5: a soft failure never aborts the pipeline: whatever texts the model
\* returns, no stage sets status = failed, and the run ends completed.
C5_SoftNeverAborts ==
    AllAnswered =>
        /\ status # "failed"
        /\ pc = "done" => status = "completed"

\* the response the model gave to the node
ResponseTo(name) ==
    calls[CHOOSE i \in DOMAIN calls : calls[i].node = name].text
WasAnswered(name) ==
    \E i \in DOMAIN calls : calls[i].node = name /\ ~calls[i].raised

HeaderKeys ==
    { invoice_number, invoice_date, due_date, vendor_name, vendor_address,
      customer_name, customer_address }

\* C6: when the response cannot be parsed as JSON the header stage records
\* 0.5 and writes the seven header fields as null, and the financial stage
\* records 0.5 and writes subtotal, tax_amount, total_amount = 0.0 and
\* currency = "USD"; 0.85 / 0.90 are recorded only when parsing succeeded.
C6_ParseFailureFallback ==
    /\ (WasAnswered("extract_header") /\ ran[Len(ran)] = "extract_header"
        /\ AllParsesFail(ResponseTo("extract_header"))) =>
          /\ Get(confidence_scores, "header_extraction") = FallbackScore
          /\ \A key \in HeaderKeys :
                Has(extracted_data, key) /\ Get(extracted_data, key) = Null
    /\ (WasAnswered("extract_financial") /\ ran[Len(ran)] = "extract_financial"
        /\ AllParsesFail(ResponseTo("extract_financial"))) =>
          /\ Get(confidence_scores, "financial_extraction") = FallbackScore
          /\ \A key \in {subtotal, tax_amount, total_amount} :
                Has(extracted_data, key) /\ Get(extracted_data, key) = Num(0)
          /\ Has(extracted_data, currency)
          /\ Get(extracted_data, currency) = Str(USD)

\* C9: from the end of the financial stage on, total_amount and subtotal,
\* whenever present, hold a number.
C9_AmountsNumeric ==
    Len(ran) >= 3 =>
        \A key \in {total_amount, subtotal} :
            Has(extracted_data, key) =>
                Get(extracted_data, key).k \in {"num", "bigint"}

\* C10: every value of the confidence mapping, "overall" included, is a
\* number in [0, 1].
C10_ConfidenceInUnitInterval ==
    \A i \in DOMAIN confidence_scores :
        /\ confidence_scores[i].val.k = "num"
        /\ confidence_scores[i].val.v >= 0
        /\ confidence_scores[i].val.v <= Scale

\* the validation response parsed to an object that carries key
CarriedByValidation(key) ==
    /\ extract_json_from_response(ResponseTo("validate_data")).raised = ""
    /\ extract_json_from_response(ResponseTo("validate_data")).val.k = "obj"
    /\ Has(extract_json_from_response(ResponseTo("validate_data")).val.v, key)

\* the unweighted mean of the three recorded stage confidences
MeanOfStages ==
    Num((Get(confidence_scores, "header_extraction").v
         + Get(confidence_scores, "financial_extraction").v
         + Get(confidence_scores, "line_items_extraction").v) \div 3)

\* C11: whenever the validation stage completes, confidence holds an
\* "overall" entry: the model's overall_confidence when the validation
\* response carries one, else the mean of the recorded stage confidences.
C11_OverallRecorded ==
    status = "completed" =>
        /\ Has(confidence_scores, "overall")
        /\ IF CarriedByValidation(overall_confidence)
           THEN Get(confidence_scores, "overall") =
                   Get(extract_json_from_response(ResponseTo("validate_data")).val.v,
                       overall_confidence)
           ELSE Get(confidence_scores, "overall") = MeanOfStages

\* the total_amount of the fields the validation prompt carries
PromptTotal == GetOr(extracted_json.v, total_amount, Null)

\* the validation report of a completed run, and its entries
ValidationReport == Get(extracted_data, validation).v
ReportedCalculated == Get(ValidationReport, "calculated_total").v
ReportedExtracted == NumberOf(Get(ValidationReport, "extracted_total"))
ReportedMatch == Get(ValidationReport, "totals_match").v

\* 0.01 and 0.011 currency units
Cent == Scale \div 100
CentAndTenth == Scale \div 100 + Scale \div 1000

C12_JustOutside ==
    /\ status = "completed"
    /\ Abs(ReportedCalculated - ReportedExtracted) = CentAndTenth
    /\ ReportedCalculated > 0
    /\ ~ReportedMatch
    /\ PromptTotal = Num(ReportedCalculated)

\* the step of the validation stage that passes lines 266-329
ReconciliationStep == extracted_json = Null /\ extracted_json' # Null

\* the totals the stage compares, from the fields it is given
GivenCalculated == CalculatedTotal(extracted_data).n
GivenExtracted == NumberOf(ExtractedTotal(extracted_data))
Disagree == Abs(GivenCalculated - GivenExtracted) > Cent

\* C13: reconciliation overwrites total_amount if and only if the totals
\* do not match and calculated_total > 0; when calculated_total is 0 or
\* negative it leaves total_amount and subtotal as they were, even if the
\* totals disagree.
C13_CorrectsOnlyWhenPositive ==
    [][ReconciliationStep =>
          /\ (Disagree /\ GivenCalculated > 0) =>
                /\ PromptTotal' = Num(GivenCalculated)
                /\ GetOr(extracted_data, total_amount, Null)
                      # Num(GivenCalculated)
          /\ ~(Disagree /\ GivenCalculated > 0) =>
                extracted_json'.v = extracted_data]_vars

\* the totals disagreed, no line item had a usable total, and the declared
\* total of 140.00 went into the prompt as it was
C13_Witness ==
    /\ status = "completed"
    /\ ~ReportedMatch
    /\ ReportedCalculated = 0
    /\ PromptTotal = Num(140 * Scale)

\* the same with a negative line-item sum
C13_NegativeSum ==
    /\ status = "completed"
    /\ ~ReportedMatch
    /\ ReportedCalculated < 0
    /\ PromptTotal = Num(140 * Scale)

\* the subtotal of the fields the validation prompt carries
PromptSubtotal == GetOr(extracted_json.v, subtotal, Null)

\* C14: when auto-correction fires, total_amount becomes calculated_total,
\* and subtotal becomes calculated_total exactly when it was missing or
\* 0.0; any other subtotal is kept.
C14_SubtotalRule ==
    [][(ReconciliationStep /\ Disagree /\ GivenCalculated > 0) =>
          /\ PromptTotal' = Num(GivenCalculated)
          /\ IF ~Has(extracted_data, subtotal)
                 \/ Get(extracted_data, subtotal) = Num(0)
             THEN PromptSubtotal' = Num(GivenCalculated)
             ELSE PromptSubtotal' = Get(extracted_data, subtotal)]_vars

\* the validation stage ran and an exception reached its handler: raised
\* by the model invocation, or raised before the model was invoked
ValidationRaised ==
    /\ ran = StageOrder
    /\ \/ Len(calls) < 4
       \/ calls[Len(calls)].raised

\* C15: a run ends completed if and only if all five stages ran and none
\* raised a hard failure; a completed state holds the validation report,
\* the line_items entry and the three stage scores; an exception in the
\* validation stage gives failed with a failure reason, never completed.
C15_CompletedIff ==
    /\ pc = "done" =>
          (status = "completed" <=>
              /\ ran = StageOrder
              /\ Len(calls) = 4
              /\ \A i \in DOMAIN calls : ~calls[i].raised
              /\ error_message = <<>>)
    /\ pc = "done" => status \in {"completed", "failed"}
    /\ status = "completed" =>
          /\ ran = StageOrder
          /\ Has(extracted_data, validation)
          /\ Get(extracted_data, validation).k = "obj"
          /\ Has(ValidationReport, "totals_match")
          /\ Has(extracted_data, line_items)
          /\ {"header_extraction", "financial_extraction",
              "line_items_extraction"} \subseteq Keys(confidence_scores)
    /\ ValidationRaised =>
          /\ status = "failed"
          /\ ~IsEmptyText(error_message)

\* a run of five answered stages returned completed
C15_Witness ==
    /\ pc = "done"
    /\ result.returned
    /\ result.status = "completed"
    /\ Has(result.extracted_data, validation)
    /\ Len(calls) = 4

\* a run whose validation stage raised before invoking the model
C15_ValidationRaisedEarly ==
    /\ pc = "done"
    /\ ValidationRaised
    /\ Len(calls) = 3

SnapshotKeys ==
    {"status", "extracted_data", "confidence_scores", "processing_time",
     "error_message"}

\* C16: extract_invoice_data returns a mapping with exactly the keys
\* status, extracted_data, confidence_scores, processing_time and
\* error_message, and its error_message is non-empty if and only if its
\* status is failed.
C16_SnapshotShape ==
    result.returned =>
        /\ DOMAIN result \ {"returned"} = SnapshotKeys
        /\ result.status \in {"completed", "failed"}
        /\ ~IsEmptyText(result.error_message) <=> result.status = "failed"

\* the snapshot of a run whose validation stage raised
C16_Witness ==
    /\ result.returned
    /\ result.status = "failed"
    /\ Len(ran) = 5
    /\ result.error_message = error_message
    /\ ~IsEmptyText(error_message)

\* the financial stage has just returned, having parsed an object
FinancialReply == extract_json_from_response(ResponseTo("extract_financial"))
FinancialJustParsed ==
    /\ Len(ran) = 3
    /\ WasAnswered("extract_financial")
    /\ FinancialReply.raised = ""
    /\ FinancialReply.val.k = "obj"

\* the amount a text stands for once $, the pound sign, the euro sign and
\* ',' are stripped; 0.0 when it still does not parse
AmountOf(text) == FloatOrZero(PyFloat(Strip(text, {Dollar, Pound, Euro, ","})))

\* C18: the financial stage strips $, the pound sign, the euro sign and
\* ',' from subtotal, tax_amount and total_amount before parsing, so an
\* amount 1,234.56 in any of the three currencies becomes 1234.56; a value
\* that still cannot be parsed becomes 0.0.
C18_CurrencyStripped ==
    FinancialJustParsed =>
        \A i \in DOMAIN FinancialReply.val.v :
            (/\ ExpectedKey(FinancialReply.val.v[i].key)
                    \in {subtotal, tax_amount, total_amount}
             /\ FinancialReply.val.v[i].val.k = "str"
             /\ FinancialReply.val.v[i].val.v # <<>>) =>
                GetOr(extracted_data, ExpectedKey(FinancialReply.val.v[i].key), Null)
                   = AmountOf(FinancialReply.val.v[i].val.v)

\* the value of the first alias present in the item d, whatever it holds
FirstPresentAlias(d) ==
    IF Has(d, total_price) THEN Get(d, total_price)
    ELSE IF Has(d, TotalPrice) THEN Get(d, TotalPrice)
    ELSE IF Has(d, amount) THEN Get(d, amount)
    ELSE IF Has(d, Amount) THEN Get(d, Amount)
    ELSE Num(0)

\* the sum of the line items' totals, each taken from its first present alias
RECURSIVE SumOfFirstPresent(_)
SumOfFirstPresent(items) ==
    IF items = <<>> THEN 0
    ELSE (IF Head(items).k = "obj"
          THEN PriceToFloat(FirstPresentAlias(Head(items).v)).n
          ELSE 0) + SumOfFirstPresent(Tail(items))

PromptLineItems == GetOr(extracted_json.v, line_items, Arr(<<>>))

\* C20: each line item's total comes from the first alias present in it,
\* in the order total_price, Total Price, amount, Amount: when an earlier
\* alias is present, whatever its value, later aliases are not used.
C20_FirstPresentAliasWins ==
    (status = "completed" /\ PromptLineItems.k = "arr") =>
        ReportedCalculated = SumOfFirstPresent(PromptLineItems.v)

\* the validation stage completes in this step
ValidationCompletes == status = "processing" /\ status' = "completed"

\* the line items the stage is given: the sequence under line_items
GivenItems ==
    IF GetOr(extracted_data, line_items, Null).k = "arr"
    THEN Get(extracted_data, line_items).v
    ELSE <<>>

\* the declared total the stage is given, as a number: a text is stripped
\* of currency symbols and parsed, anything else that is no number is 0.0
DeclaredTotal(v) ==
    CASE v.k = "str" -> AmountOf(v.v)
      [] v.k = "num" -> v
      [] OTHER -> Num(0)
GivenDeclared == DeclaredTotal(GetOr(extracted_data, total_amount, Null))

\* the report holds the five entries the totals calc and ext give
ReportOf(report, calc, ext) ==
    /\ report.k = "obj"
    /\ Keys(report.v) = {"totals_match", "extracted_total", "calculated_total",
                         "difference", "auto_corrected"}
    /\ Get(report.v, "calculated_total") = Num(calc)
    /\ Get(report.v, "extracted_total") = ext
    /\ Get(report.v, "difference") = Num(Abs(calc - ext.v))
    /\ Get(report.v, "totals_match") = Bool(Abs(calc - ext.v) <= Cent)
    /\ Get(report.v, "auto_corrected")
          = Bool(~(Abs(calc - ext.v) <= Cent) /\ calc > 0)

\* C21: the report written to validation holds calculated_total = the sum
\* over the line items of the resolved, coerced total (0.0 for an item with
\* no usable total or that is no mapping), extracted_total = the declared
\* total_amount as it was before any correction (0.0 if missing or not
\* numeric), difference = |calculated_total - extracted_total|, totals_match
\* = (difference <= 0.01) and auto_corrected = (not totals_match and
\* calculated_total > 0); a validation key of enhanced_data never replaces it.
C21_ReportContents ==
    [][ValidationCompletes =>
          /\ Has(extracted_data', validation)
          /\ ReportOf(Get(extracted_data', validation),
                      SumOfFirstPresent(GivenItems), GivenDeclared)]_vars

\* the same report with each item's total resolved as line 274 resolves it
C21_ReportAsComputed ==
    [][ValidationCompletes =>
          /\ Has(extracted_data', validation)
          /\ ReportOf(Get(extracted_data', validation),
                      GivenCalculated, GivenDeclared)]_vars

\* the validation response carried a validation key in its enhanced_data
C21_ReportWrittenLast ==
    /\ status = "completed"
    /\ CarriedByValidation(enhanced_data)
    /\ ReportedCalculated = 150 * Scale
    /\ Get(ValidationReport, "auto_corrected") = Bool(TRUE)

\* the line-items stage has just returned, the model having answered
LineItemsReply == extract_json_from_response(ResponseTo("extract_line_items"))
LineItemsJustRan == Len(ran) = 4 /\ WasAnswered("extract_line_items")

\* what the claim has the stage store for the parse result raw
AcceptedItems(raw) ==
    CASE raw.k = "arr" -> raw
      [] raw.k = "obj" /\ Has(raw.v, line_items) -> Get(raw.v, line_items)
      [] OTHER -> Arr(<<>>)

StoredItems == Get(extracted_data, line_items)
LineItemsScore == Get(confidence_scores, "line_items_extraction")

C24_WrittenByTextStageOnly ==
    /\ [](ran = <<>> => raw_text = <<>> /\ processing_time = 0)
    /\ []((status = "failed" /\ Len(ran) = 1) =>
             raw_text = <<>> /\ processing_time = 0)
    /\ [][Len(ran) >= 1 => UNCHANGED <<raw_text, processing_time>>]_vars
    /\ [](result.returned => result.processing_time = processing_time)

\* a completed run returned the text stage's elapsed time
C24_Witness ==
    /\ result.returned
    /\ result.status = "completed"
    /\ raw_text = <<"I", "N", "V">>
    /\ processing_time = MaxElapsed
    /\ result.processing_time = MaxElapsed

\* C25: the key set of the fields grows monotonically over a run: no
\* stage removes a key (a later stage only adds keys or overwrites values),
\* and no stage removes an entry of the confidence mapping.
C25_KeysAccumulate ==
    [][/\ Keys(extracted_data) \subseteq Keys(extracted_data')
       /\ Keys(confidence_scores) \subseteq Keys(confidence_scores')]_vars

\* the header stage wrote a total_amount that later stages overwrote, and
\* every key written during the run is still there
C25_Witness ==
    /\ status = "completed"
    /\ ResponseTo("extract_header")
          = JsonText(Obj(<<Item(TotalAmount, Str(<<"$", "5">>))>>))
    /\ Get(extracted_data, total_amount) = Num(150 * Scale)
    /\ Keys(extracted_data) = {total_amount, subtotal, line_items, validation}
    /\ Keys(confidence_scores)
          = {"header_extraction", "financial_extraction",
             "line_items_extraction", "overall"}

\* C26: a stage that ends with status = failed leaves the fields and the
\* confidence mapping exactly as they were when it began; in particular a
\* model-invocation error in the validation stage leaves total_amount and
\* subtotal as the financial stage left them.
C26_FailedStageLeavesData ==
    [][(status # "failed" /\ status' = "failed") =>
          /\ extracted_data' = extracted_data
          /\ confidence_scores' = confidence_scores]_vars

\* C26, amended: a stage that ends with status = failed leaves the
\* confidence mapping as it was when the stage began, and the fields too,
\* except that a validation stage whose totals disagreed with
\* calculated_total > 0 has by then overwritten total_amount with
\* calculated_total, and kept subtotal or set it to calculated_total.
C26_FailedStageLeavesDataButCorrection ==
    [][(status # "failed" /\ status' = "failed") =>
          /\ confidence_scores' = confidence_scores
          /\ IF ReconciliationStep /\ Disagree /\ GivenCalculated > 0
             THEN /\ Keys(extracted_data')
                       = Keys(extracted_data) \cup {total_amount, subtotal}
                  /\ \A key \in Keys(extracted_data) \ {total_amount, subtotal} :
                        Get(extracted_data', key) = Get(extracted_data, key)
                  /\ Get(extracted_data', total_amount) = Num(GivenCalculated)
                  /\ Get(extracted_data', subtotal)
                        \in {Num(GivenCalculated),
                             GetOr(extracted_data, subtotal, Num(GivenCalculated))}
             ELSE extracted_data' = extracted_data]_vars

\* the model invocation of the validation stage raised after a declared
\* total of 140.00 had been corrected to the line items' 150.00
C26_Witness ==
    /\ status = "failed"
    /\ Len(calls) = 4
    /\ calls[4].raised
    /\ ResponseTo("extract_financial")
          = JsonText(Obj(<<Item(Subtotal, Num(0)), Item(TaxAmount, Num(0)),
                           Item(TotalAmount, Num(140 * Scale)),
                           Item(Currency, Str(USD))>>))
    /\ Get(extracted_data, total_amount) = Num(150 * Scale)
    /\ Get(extracted_data, subtotal) = Num(150 * Scale)
    /\ ~Has(extracted_data, validation)

\* C27: whenever a run completes with auto_corrected = true in its
\* validation report, the final total_amount equals the report's
\* calculated_total and the final line_items is the sequence that total was
\* computed from, whatever enhanced_data the validation response holds.
C27_RecordMatchesReport ==
    (status = "completed"
     /\ Get(ValidationReport, "auto_corrected") = Bool(TRUE)) =>
        /\ GetOr(extracted_data, total_amount, Null) = Num(ReportedCalculated)
        /\ GetOr(extracted_data, line_items, Null) = PromptLineItems

\* C28: whenever the line-items stage has run without a hard failure,
\* line_items is an ordered sequence (a list), for every response of the
\* model, an object whose line_items is a text, a mapping, a number or null
\* included.
C28_LineItemsIsList ==
    (Len(ran) >= 4 /\ WasAnswered("extract_line_items")) =>
        /\ Has(extracted_data, line_items)
        /\ Get(extracted_data, line_items).k = "arr"

\* C29: every run terminates in a terminal status: provided the document
\* read and each model invocation eventually return or raise, the run
\* eventually returns, and the status it returns is completed or failed,
\* never processing. Checked under SpecFair.
C29_Terminates ==
    <>(/\ pc = "done"
       /\ result.returned
       /\ result.status \in {"completed", "failed"})

\* a run whose validation stage raised before it invoked the model has
\* returned failed
C29_Witness ==
    /\ pc = "done"
    /\ result.returned
    /\ result.status = "failed"
    /\ ran = StageOrder
    /\ Len(calls) = 3
    /\ error_message = <<"Validation failed: ", "OverflowError">>

-----------------------------------------------------------------------------
(* Claims about extract_json_from_response, checked under SpecParser *)

\* C7: extract_json_from_response never raises, whatever the text, and it
\* returns the empty mapping for every text on which the direct parse, the
\* fenced-block parse and the brace-span parse all fail.
C7_NeverRaises ==
    presult.called =>
        /\ presult.raised = ""
        /\ AllParsesFail(ptext) => presult.val = Obj(EmptyDict)

\* the text first given is valid JSON, an object or an array
OrigIsJson ==
    /\ JsonLoads(porig).ok
    /\ JsonLoads(porig).val.k \in {"obj", "arr"}

\* C8: for every valid JSON text J (object or array), the parse of J in a
\* fenced code block (with or without the json tag) and the parse of J
\* surrounded by prose equal the parse of J itself.
C8_WrappedParsesAlike ==
    (pform # "plain" /\ presult.called /\ OrigIsJson) =>
        /\ presult.raised = ""
        /\ presult.val = extract_json_from_response(porig).val

\* the position of the brace that closes the one opened before position i,
\* depth braces being open at i; 0 when the text ends first
RECURSIVE CloseOf(_, _, _)
CloseOf(text, i, depth) ==
    IF i > Len(text) THEN 0
    ELSE IF text[i].t = "{" THEN CloseOf(text, i + 1, depth + 1)
    ELSE IF text[i].t = "}"
         THEN (IF depth = 1 THEN i ELSE CloseOf(text, i + 1, depth - 1))
    ELSE CloseOf(text, i + 1, depth)

\* the first top-level brace span of the text: from its first opening brace
\* to the brace that closes it
SpanFrom(text, first, close) ==
    IF close = 0 THEN NoMatch
    ELSE [found |-> TRUE, span |-> SubSeq(text, first, close)]
FirstTopLevelSpan(text) ==
    IF \A i \in DOMAIN text : text[i].t # "{" THEN NoMatch
    ELSE SpanFrom(text, Least({i \in DOMAIN text : text[i].t = "{"}),
                  CloseOf(text, Least({i \in DOMAIN text : text[i].t = "{"}) + 1, 1))

\* the value the three steps give, the first success winning
FirstSuccess(text) ==
    IF JsonLoads(text).ok THEN JsonLoads(text).val
    ELSE IF FenceSearch(text).found /\ JsonLoads(FenceSearch(text).span).ok
    THEN JsonLoads(FenceSearch(text).span).val
    ELSE IF FirstTopLevelSpan(text).found
            /\ JsonLoads(FirstTopLevelSpan(text).span).ok
    THEN JsonLoads(FirstTopLevelSpan(text).span).val
    ELSE Obj(EmptyDict)

\* no literal of the text is beyond the limits of the JSON decoder
WithinLimits(text) == \A i \in DOMAIN text : text[i] # OverLimit

\* C23: extract_json_from_response tries the direct parse, then the fenced
\* code block, then the brace span, and the first success wins; the brace
\* span is the first top-level {...} span of the text, so a valid object
\* followed by prose holding a closing brace, or by a second object, yields
\* that first object.
C23_FirstSpanWins ==
    (presult.called /\ WithinLimits(ptext)) =>
        /\ presult.raised = ""
        /\ presult.val = FirstSuccess(ptext)

-----------------------------------------------------------------------------
(* Claims about normalize_json_keys, checked under SpecNormalizer *)

Normalized == nresult.called /\ ndata.k = "obj"

\* C17: normalize_json_keys maps each alias of the table to its canonical
\* name and every other key to its lower-cased form with spaces replaced by
\* underscores, and keeps each key's value unchanged.
C17_KeysNormalized ==
    Normalized =>
        /\ nresult.raised = ""
        /\ nresult.val.k = "obj"
        /\ Keys(nresult.val.v) = {ExpectedKey(ndata.v[i].key) : i \in DOMAIN ndata.v}
        /\ \A i \in DOMAIN ndata.v :
              GetOr(nresult.val.v, ExpectedKey(ndata.v[i].key), Null)
                 = ndata.v[i].val

\* the last item of d whose key normalises as that of item i does
LastAlike(d, i) ==
    CHOOSE j \in DOMAIN d :
        /\ ExpectedKey(d[j].key) = ExpectedKey(d[i].key)
        /\ \A k \in DOMAIN d :
              ExpectedKey(d[k].key) = ExpectedKey(d[i].key) => k <= j

\* C17, amended: as above, and when several keys normalise to one name the
\* result holds that name once, with the value of the last of them.
C17_KeysNormalizedLastWins ==
    Normalized =>
        /\ nresult.raised = ""
        /\ nresult.val.k = "obj"
        /\ Keys(nresult.val.v) = {ExpectedKey(ndata.v[i].key) : i \in DOMAIN ndata.v}
        /\ \A i \in DOMAIN ndata.v :
              GetOr(nresult.val.v, ExpectedKey(ndata.v[i].key), Null)
                 = ndata.v[LastAlike(ndata.v, i)].val

\* an alias and an unlisted key that normalise to the same name were given
C17_Witness ==
    /\ nresult.called
    /\ ndata = Obj(<< Item(TotalAmount, One),
                      Item(<<"T", "O", "T", "A", "L", " ", "A", "M", "O", "U", "N", "T">>,
                           Null) >>)
    /\ nresult.val = Obj(<<Item(total_amount, Null)>>)

\* the key holds no space and no upper-case letter
CleanKey(key) ==
    \A i \in DOMAIN key :
        /\ key[i] # " "
        /\ \A j \in DOMAIN UpperCase : UpperCase[j] # key[i]

\* C30: normalize_json_keys is idempotent: applied to a mapping it has
\* returned, it returns that mapping again; and every key of a result is
\* free of spaces and upper-case letters.
C30_Idempotent ==
    /\ [][(nresult.called /\ nresult'.called) => nresult' = nresult]_vars
    /\ []((nresult.called /\ nresult.raised = "") =>
             \A key \in Keys(nresult.val.v) : CleanKey(key))

\* the result of normalising a mapping with an alias and an unknown key in
\* mixed case was normalised again
C30_Witness ==
    /\ nresult.called
    /\ ndata = Obj(<< Item(total_amount, One),
                      Item(<<"s", "h", "i", "p", "_", "t", "o", "_", "z", "i", "p">>,
                           Null) >>)
    /\ nresult.val = ndata

-----------------------------------------------------------------------------
(* Claims about two calls at once, checked under SpecPair *)

\* the state a call reaches when it runs alone on the given inputs
RECURSIVE AloneFrom(_, _, _)
AloneFrom(i, L, inputs) ==
    IF i > Len(inputs) \/ L.status = "failed" THEN L
    ELSE AloneFrom(i + 1, NodeFunc(nodes[i], L, inputs[i]), inputs)

Alone(inputs) == AloneFrom(1, FreshState, inputs)

\* C19: when two runs are interleaved step by step, each run's state and
\* final snapshot (status, fields, confidence, error message) are those of
\* the run executing alone on the same text and model responses; a failure
\* of one run does not change the other's status.
C19_RunsIsolated ==
    \A r \in DOMAIN runs : Deref(r) = Alone(runs[r].inputs)

\* the second call failed in its header stage while the first was between
\* two of its stages; the first then completed
C19_Witness ==
    /\ runs # <<>>
    /\ runs[2].overlapped
    /\ runs[1].pc = "done"
    /\ runs[1].status = "completed"
    /\ runs[2].pc = "done"
    /\ runs[2].status = "failed"
    /\ Len(runs[2].inputs) = 2
    /\ dicts[runs[2].extracted_data] = EmptyDict
    /\ Has(dicts[runs[1].extracted_data], validation)

-----------------------------------------------------------------------------
(* The service around the pipeline (main.py): one uploaded invoice, the
   reprocess requests for it and its background tasks.  The invoice is never
   deleted.  The request handlers are coroutines without an await between
   their statements, so one handler runs at a time; every
   process_invoice_background is a plain function that the framework runs
   in a worker thread after the response, so the tasks interleave with each
   other and with the handlers at their database accesses. *)

\* the most process_invoice_background tasks scheduled for the invoice
MaxTasks == 3

NoInvoice == [stored |-> FALSE]
NoRequest == [handled |-> FALSE]
NoCommit == [task |-> 0]

\* the invoices row: Invoice.status (database.py line 25)
Row(s) == [stored |-> TRUE, status |-> s]

\* the confidence mapping of a run whose validation stage stored overall
StageScores(overall) ==
    <<Item("header_extraction", Score(90)),
      Item("financial_extraction", Score(90)),
      Item("line_items_extraction", Score(85)),
      Item("overall", overall)>>

\* extract_invoice_data(filename), line 116: the snapshot of a run that
\* completed, of a run that completed with the model's overall_confidence
\* "high" as its overall score (langgraph_workflow.py line 345), of a run
\* that failed at the document read
TaskResults ==
    {[status |-> "completed", confidence_scores |-> StageScores(Score(80))],
     [status |-> "completed",
      confidence_scores |-> StageScores(Str(<<"h", "i", "g", "h">>))],
     [status |-> "failed", confidence_scores |-> EmptyDict]}

\* sum(confidences), line 144: TypeError unless every score is a number
SumRaises(conf) ==
    \E i \in DOMAIN conf : conf[i].val.k \notin {"num", "bool", "bigint"}

\* lines 141-144
AverageRaises(res) ==
    /\ res.confidence_scores # EmptyDict
    /\ SumRaises(res.confidence_scores)

\* db.commit() on a session that loaded the row with status = loaded and
\* whose object now has status = attr: the flush updates the columns whose
\* attribute differs from the value loaded
Flushed(row, loaded, attr) == IF attr # loaded THEN Row(attr) ELSE row

\* background_tasks.add_task(process_invoice_background, ...), lines 187, 269
Scheduled == [pc |-> "scheduled"]

\* upload_invoice, lines 178-187: the row is inserted with status
\* processing and the first task is scheduled
upload_invoice ==
    /\ ~invoice.stored
    /\ invoice' = Row("processing")
    /\ tasks' = <<Scheduled>>
    /\ UNCHANGED <<request, lastcommit, stateVars, parserVars, normalizerVars,
                   pairVars>>

\* reprocess_invoice, lines 258-264: the handler's session loads the row
ReprocessQuery ==
    /\ invoice.stored
    /\ ~request.handled
    /\ Len(tasks) < MaxTasks
    /\ request' = [handled |-> TRUE, loaded |-> invoice.status]
    /\ UNCHANGED <<invoice, tasks, lastcommit, stateVars, parserVars,
                   normalizerVars, pairVars>>

\* reprocess_invoice, lines 266-269: status = processing is committed and
\* one more task is scheduled
ReprocessCommit ==
    /\ request.handled
    /\ invoice' = Flushed(invoice, request.loaded, "processing")
    /\ tasks' = Append(tasks, Scheduled)
    /\ request' = NoRequest
    /\ UNCHANGED <<lastcommit, stateVars, parserVars, normalizerVars,
                   pairVars>>

\* process_invoice_background, lines 113-116: the pipeline runs and returns
TaskExtract(t) ==
    /\ tasks[t].pc = "scheduled"
    /\ \E res \in TaskResults :
          tasks' = [tasks EXCEPT ![t] = [pc |-> "extracted", result |-> res]]
    /\ UNCHANGED <<invoice, request, lastcommit, stateVars, parserVars,
                   normalizerVars, pairVars>>

\* lines 119-146: the task's session loads the row and the result is
\* assigned to the object; the average of line 144 may raise
TaskQuery(t) ==
    /\ tasks[t].pc = "extracted"
    /\ tasks' = [tasks EXCEPT ![t] =
                    [pc |-> IF AverageRaises(@.result) THEN "raised"
                                                      ELSE "assigned",
                     result |-> @.result,
                     loaded |-> invoice.status]]
    /\ UNCHANGED <<invoice, request, lastcommit, stateVars, parserVars,
                   normalizerVars, pairVars>>

\* lines 148 and 159: the commit of the result, the session is closed
TaskCommit(t) ==
    /\ tasks[t].pc = "assigned"
    /\ invoice' = Flushed(invoice, tasks[t].loaded, tasks[t].result.status)
    /\ lastcommit' = [task |-> t, status |-> tasks[t].result.status]
    /\ tasks' = [tasks EXCEPT ![t] = [pc |-> "finished", result |-> @.result]]
    /\ UNCHANGED <<request, stateVars, parserVars, normalizerVars, pairVars>>

\* lines 149-159: the handler of the exception gets the object of the same
\* session again, sets status = failed and commits
TaskMarkFailed(t) ==
    /\ tasks[t].pc = "raised"
    /\ invoice' = Flushed(invoice, tasks[t].loaded, "failed")
    /\ lastcommit' = [task |-> t, status |-> tasks[t].result.status]
    /\ tasks' = [tasks EXCEPT ![t] = [pc |-> "finished", result |-> @.result]]
    /\ UNCHANGED <<request, stateVars, parserVars, normalizerVars, pairVars>>

\* process_invoice_background(invoice.id, file_path) in its worker thread
process_invoice_background ==
    \E t \in DOMAIN tasks :
        TaskExtract(t) \/ TaskQuery(t) \/ TaskCommit(t) \/ TaskMarkFailed(t)

InitTasks ==
    /\ InitState
    /\ IdleParser
    /\ IdleNormalizer
    /\ IdlePair
    /\ invoice = NoInvoice
    /\ tasks = <<>>
    /\ request = NoRequest
    /\ lastcommit = NoCommit

NextTasks ==
    \/ upload_invoice
    \/ ReprocessQuery
    \/ ReprocessCommit
    \/ process_invoice_background

SpecTasks == InitTasks /\ [][NextTasks]_vars

-----------------------------------------------------------------------------
(* Claims, checked under SpecTasks *)

\* no request is being handled and every scheduled task has finished
AllTasksFinished ==
    /\ invoice.stored
    /\ ~request.handled
    /\ \A t \in DOMAIN tasks : tasks[t].pc = "finished"

\* C31: once every process_invoice_background task scheduled for the
\* invoice has finished, the stored status is completed or failed, and it is
\* the status of the pipeline result of the task that committed last.
C31_StatusOfLastCommit ==
    AllTasksFinished =>
        /\ invoice.status \in {"completed", "failed"}
        /\ lastcommit.task # 0
        /\ invoice.status = lastcommit.status

\* the first half of C31 alone: the status is not left as processing
C31_NotLeftProcessing ==
    AllTasksFinished => invoice.status \in {"completed", "failed"}

====
